---- MODULE Spec2Model ----
(***************************************************************************)
(* Model of Source/Extensibility/EvalWrapper/EvalExtendedWrapper.cpp: the  *)
(* managed wrapper IEvaluateModelExtendedManaged<ElemType> around one      *)
(* native engine handle (m_eval), the VariableSchema buffer factory, the   *)
(* translation of native exceptions, and the pinning of managed arrays in  *)
(* ForwardPass under a relocating collector.                               *)
(***************************************************************************)
EXTENDS Integers, Sequences, FiniteSets, TLC

\* ------------------------------------------------------------------ bounds
\* number of public calls (operations and Dispose) made on the instance
MaxCalls == 2
\* number of relocations the collector performs
MaxGC == 1

\* --------------------------------------------------------------- constants
\* largest value of the 32-bit int of m_numElements * maxLengths[i]
MaxInt32 == 2147483647
MinInt32 == (-MaxInt32) - 1
\* the value of m_eval after teardown (nullptr) and the engine's handle
NULL == 0
Handle == 1

\* ----------------------------------------------------------------- strings
\* A native string is the sequence of its character codes; what() and
\* c_str() end at the first NUL.
RECURSIVE CStr(_)
CStr(s) == IF s = <<>> \/ Head(s) = 0 THEN <<>> ELSE <<Head(s)>> \o CStr(Tail(s))

\* gcnew System::String(const char*): every character of the C string
\* becomes one UTF-16 code unit (codes below 128 keep their value).
AnsiToUtf16(b) == IF b < 128 THEN b ELSE 65533
NewString(p) == [i \in 1..Len(CStr(p)) |-> AnsiToUtf16(CStr(p)[i])]

\* gcnew String(const wchar_t*): the code units up to the first NUL
NewStringW(p) == CStr(p)

DisposedMsg == <<79, 98, 106>>          \* "Object has been disposed."
LibraryMsg == <<67, 97, 110>>           \* "Cannot find library: evaldll.dll"
MaxLengthsMsg == <<69, 120, 112>>       \* "Expected max lengths for all variables."
DataTypeMsg == <<67, 111, 110>>         \* "Cannot convert native DataType ..."
ClrMsg == <<67, 76, 82>>                \* message of an exception the runtime raises

\* ------------------------------------------------------- native exceptions
\* what the native engine can throw: the three ExceptionWithCallStack<E>
\* instantiations the wrapper names, bad_alloc, and exceptions that carry no
\* call stack.  callStack is <<>> when the type has none, <<text>> otherwise.
NativeExceptions ==
    { [type |-> "ExceptionWithCallStack<runtime_error>", what |-> <<82, 116>>, callStack |-> <<(<<64, 49>>)>>],
      [type |-> "ExceptionWithCallStack<logic_error>", what |-> <<76, 103>>, callStack |-> <<(<<64, 50>>)>>],
      [type |-> "ExceptionWithCallStack<invalid_argument>", what |-> <<73, 97>>, callStack |-> <<(<<64, 51>>)>>],
      [type |-> "bad_alloc", what |-> <<98, 97>>, callStack |-> <<>>],
      [type |-> "runtime_error", what |-> <<114>>, callStack |-> <<>>],
      [type |-> "invalid_argument", what |-> <<105>>, callStack |-> <<>>],
      [type |-> "exception", what |-> <<101>>, callStack |-> <<>>] }

\* outcome of one call into the native engine: <<>> (returns) or <<ex>>
NativeOutcomes == {<<>>} \cup {<<ex>> : ex \in NativeExceptions}

\* a managed exception object
Exc(kind, msg, stack) == [kind |-> kind, msg |-> msg, stack |-> stack]

\* GetCustomException whose invalid_argument branch was copied from the
\* logic_error branch
GetCustomExceptionSwapped(ex) ==
    IF ex.type = "ExceptionWithCallStack<runtime_error>"
    THEN Exc("CNTKRuntimeException", NewString(ex.what), <<NewString(ex.callStack[1])>>)
    ELSE IF ex.type = "ExceptionWithCallStack<logic_error>"
    THEN Exc("CNTKLogicErrorException", NewString(ex.what), <<NewString(ex.callStack[1])>>)
    ELSE IF ex.type = "ExceptionWithCallStack<invalid_argument>"
    THEN Exc("CNTKLogicErrorException", NewString(ex.what), <<NewString(ex.callStack[1])>>)
    ELSE IF ex.type = "bad_alloc"
    THEN Exc("CNTKBadAllocException", NewString(ex.what), <<>>)
    ELSE Exc("CNTKException", NewString(ex.what), <<>>)

\* GetCustomException: dispatch on the exact dynamic type (typeid)
GetCustomException(ex) ==
    IF ex.type = "ExceptionWithCallStack<runtime_error>"
    THEN Exc("CNTKRuntimeException", NewString(ex.what), <<NewString(ex.callStack[1])>>)
    ELSE IF ex.type = "ExceptionWithCallStack<logic_error>"
    THEN Exc("CNTKLogicErrorException", NewString(ex.what), <<NewString(ex.callStack[1])>>)
    ELSE IF ex.type = "ExceptionWithCallStack<invalid_argument>"
    THEN Exc("CNTKInvalidArgumentException", NewString(ex.what), <<NewString(ex.callStack[1])>>)
    ELSE IF ex.type = "bad_alloc"
    THEN Exc("CNTKBadAllocException", NewString(ex.what), <<>>)
    ELSE Exc("CNTKException", NewString(ex.what), <<>>)

\* a native C++ exception that leaves a managed method uncaught reaches the
\* caller as the runtime's SEHException, without the native message
Untranslated == Exc("SEHException", ClrMsg, <<>>)

\* ------------------------------------------------------ 32-bit arithmetic
\* int + int of the compiled code: the sum modulo 2^32, as a signed int
Add32(a, b) ==
    IF a > 0 /\ b > 0 /\ a > MaxInt32 - b THEN ((a - MaxInt32) + (b - MaxInt32)) - 2
    ELSE IF a < 0 /\ b < 0 /\ a < MinInt32 - b THEN (a - MinInt32) + (b - MinInt32)
    ELSE a + b

Neg32(a) == IF a = MinInt32 THEN MinInt32 ELSE -a

RECURSIVE Mul32Nat(_, _)
Mul32Nat(a, b) ==
    IF b = 0 THEN 0
    ELSE Add32(IF b % 2 = 1 THEN a ELSE 0, Mul32Nat(Add32(a, a), b \div 2))

\* int * int of the compiled code: the product modulo 2^32, as a signed int
Mul32(a, b) ==
    IF b >= 0 THEN Mul32Nat(a, b)
    ELSE IF b = MinInt32 THEN (IF a % 2 = 1 THEN MinInt32 ELSE 0)
    ELSE Mul32Nat(Neg32(a), -b)

\* ------------------------------------------------------------ ValueBuffer
\* ValueBuffer(int size): three arrays of length size; an array of negative
\* length cannot be created (gcnew array raises OverflowException).
CanAllocate(size) == size >= 0

ValueBuffer(size) ==
    [m_size |-> size, m_buffer |-> size, m_indices |-> size, m_colIndices |-> size]

\* --------------------------------------------------------- VariableSchema
\* the sizes with maxLengths[1] used for every entry
BufferSizesMaxFirst(schema, maxLengths) ==
    [i \in 1..Len(schema) |-> Mul32(schema[i].m_numElements, maxLengths[1])]

\* the sizes CreateBuffers(maxLengths) asks for, in schema order
BufferSizesMax(schema, maxLengths) ==
    [i \in 1..Len(schema) |-> Mul32(schema[i].m_numElements, maxLengths[i])]

\* the sizes CreateBuffers() asks for
BufferSizesMin(schema) ==
    [i \in 1..Len(schema) |-> schema[i].m_numElements]

\* the loop that adds one ValueBuffer per size; the first size that cannot
\* be allocated ends the call with an exception and no list
BuildBuffers(sizes) ==
    IF \A i \in 1..Len(sizes) : CanAllocate(sizes[i])
    THEN [kind |-> "ok", value |-> [i \in 1..Len(sizes) |-> ValueBuffer(sizes[i])]]
    ELSE [kind |-> "OverflowException", value |-> <<>>]

\* VariableSchema::CreateBuffers(List<int>^ maxLengths)
CreateBuffersMax(schema, maxLengths) ==
    IF Len(maxLengths) # Len(schema)
    THEN [kind |-> "CNTKRuntimeException", value |-> <<>>]
    ELSE BuildBuffers(BufferSizesMax(schema, maxLengths))

\* VariableSchema::CreateBuffers()
CreateBuffersMin(schema) == BuildBuffers(BufferSizesMin(schema))

\* ---------------------------------------------------------- native engine
\* Native VariableLayout entries of the engine, by the network it holds.
\* m_dataType and m_storageType are the native enum values.
Float32 == "Float32"
Float64 == "Float64"
Undetermined == "Undetermined"
Dense == "Dense"
Sparse == "Sparse"

NativeLayout(name, dataType, storageType, numElements) ==
    [m_name |-> name, m_dataType |-> dataType, m_storageType |-> storageType,
     m_numElements |-> numElements]

Networks == {"A", "B"}

\* m_eval->GetInputSchema()
NativeInputSchema(net) ==
    IF net = "A" THEN <<NativeLayout(<<120>>, Float32, Dense, 2)>>
    ELSE IF net = "B" THEN <<NativeLayout(<<120>>, Float64, Sparse, 3),
                             NativeLayout(<<119>>, Float64, Dense, 1)>>
    ELSE <<>>

\* m_eval->GetOutputSchema()
NativeOutputSchema(net) ==
    IF net = "A" THEN <<NativeLayout(<<121>>, Float32, Sparse, 3),
                        NativeLayout(<<122>>, Float32, Undetermined, 1)>>
    ELSE IF net = "B" THEN <<NativeLayout(<<121, 50>>, Float64, Dense, 2)>>
    ELSE <<>>

\* ------------------------------------------------- managed VariableLayout
DataTypes == {Float32, Float64}

\* GetDataType: the two known values convert, any other raises
GetDataTypeConverts(dataType) == dataType \in DataTypes
GetDataType(dataType) == dataType

\* size_t m_numElements assigned to the int m_numElements (counts of the
\* model lie in 0..MaxInt32, where the conversion keeps the value)
SizeTToInt(n) == n

\* the body of the loop of GetInputSchema / GetOutputSchema: a fresh
\* VariableLayout (fields at their defaults: m_storageType is the enum's
\* first value, Undetermined) whose m_name, m_dataType and m_numElements are
\* then assigned
ConvertLayout(lay) ==
    [m_name |-> NewStringW(lay.m_name),
     m_dataType |-> GetDataType(lay.m_dataType),
     m_storageType |-> Undetermined,
     m_numElements |-> SizeTToInt(lay.m_numElements)]

ConvertSchema(layouts) == [i \in 1..Len(layouts) |-> ConvertLayout(layouts[i])]

\* -------------------------------------------------------- caller's buffers
\* The ValueBuffers the caller passes to ForwardPass, by id; 0 is a null
\* reference.  Each buffer owns three managed arrays.
PoolSizes == <<2, 1, 0>>
Pool == [b \in 1..Len(PoolSizes) |-> ValueBuffer(PoolSizes[b])]
Buffers == 1..Len(PoolSizes)
\* its arrays m_buffer, m_indices and m_colIndices are numbered 1, 2, 3
Arr(b, f) == (3 * (b - 1)) + f
\* the arrays that have an element whose address can be taken
NonEmpty == {b \in Buffers : Pool[b].m_size > 0}
Arrays == {Arr(b, f) : b \in NonEmpty, f \in 1..3}
ArraysOf(b) == {Arr(b, f) : f \in 1..3}
\* a relocated array gets an address no other array ever has
Stride == (3 * Len(PoolSizes)) + 1

List(items) == [isNull |-> FALSE, items |-> items]
NullList == [isNull |-> TRUE, items |-> <<>>]
InputLists == {NullList, List(<<>>), List(<<1>>), List(<<3>>)}
OutputLists == {NullList, List(<<1, 2>>), List(<<2, 1>>), List(<<2>>), List(<<0>>)}
NameLists == {NullList, List(<<>>), List(<<(<<121>>)>>)}
Descriptions == {"", "A", "B"}

\* the schemas and maxLengths lists CreateBuffers is applied to
ElementCounts == {<<>>, <<2>>, <<3, 1>>, <<65536>>}
SchemaOf(counts) ==
    [i \in 1..Len(counts) |->
        [m_name |-> <<118, 48 + i>>, m_dataType |-> Float32,
         m_storageType |-> Undetermined, m_numElements |-> counts[i]]]
Schemas == {SchemaOf(c) : c \in ElementCounts}
MaxLengthLists == {<<>>, <<3>>, <<32768>>, <<65536>>, <<2, 3>>, <<0, 4>>, <<1, 1, 1>>}

\* -------------------------------------------------------------------- state
VARIABLES
    phase,        \* "unborn", "live" (reachable), "garbage" (unreachable,
                  \* finalizer pending), "finalized", "crashed"
    m_eval,       \* the native engine handle, or NULL
    engine,       \* the native engine: [alive, net, started]
    destroyCalls, \* invocations of the native Destroy
    nativeCalls,  \* invocations of any other function of the native engine
    nullCall,     \* a null function pointer was called
    teardowns,    \* invocations of the destructor or the finalizer
    calls,        \* public calls made so far
    result,       \* what the last call gave its caller: the exception (kind,
                  \* msg, stack) or "ok" with the value, the native exception
                  \* thrown inside it, and what the call was applied to (env)
    addr,         \* the address of every managed array
    pinned,       \* the managed arrays that are pinned
    content,      \* per buffer, the result the engine wrote into it
    strayWrite,   \* the engine wrote to memory that holds no array
    gcMoves,      \* relocations done
    fp            \* the activation of ForwardPass

vars == <<phase, m_eval, engine, destroyCalls, nativeCalls, nullCall, teardowns,
          calls, result, addr, pinned, content, strayWrite, gcMoves, fp>>

heap == <<addr, pinned, content, strayWrite, gcMoves>>

Res(op, exc, value, thrown, env) ==
    [op |-> op, kind |-> exc.kind, msg |-> exc.msg, stack |-> exc.stack,
     value |-> value, thrown |-> thrown, env |-> env]

Ok == Exc("ok", <<>>, <<>>)
ObjectDisposed == Exc("ObjectDisposedException", DisposedMsg, <<>>)
Idle == [pc |-> "idle", inputs |-> NullList, outputs |-> NullList, i |-> 0,
         stdInputs |-> <<>>, stdOutputs |-> <<>>]

Init ==
    /\ phase = "unborn"
    /\ m_eval = NULL
    /\ engine = [alive |-> FALSE, net |-> "", started |-> FALSE]
    /\ destroyCalls = 0
    /\ nativeCalls = 0
    /\ nullCall = FALSE
    /\ teardowns = 0
    /\ calls = 0
    /\ result = Res("none", Ok, <<>>, <<>>, <<>>)
    /\ addr = [a \in Arrays |-> a]
    /\ pinned = {}
    /\ content = [b \in Buffers |-> 0]
    /\ strayWrite = FALSE
    /\ gcMoves = 0
    /\ fp = Idle

\* ------------------------------------------------------------- constructor
FactoryNames == {"GetEvalExtendedF", "GetEvalExtendedD"}
FuncName(elemType) == IF elemType = "float" THEN "GetEvalExtendedF" ELSE "GetEvalExtendedD"

\* what calling the null function pointer can do: the access violation ends
\* the process, or reaches the caller as the runtime's exception
NullCallOutcomes == {"crash", "NullReferenceException"}

\* IEvaluateModelExtendedManaged(String^ funcName), called by the F and D
\* subclasses.  loads: LoadLibrary finds evaldll.dll; exports: the symbols
\* GetProcAddress resolves; t: what the factory does.
Construct(elemType, loads, exports, t, ub) ==
    /\ phase = "unborn"
    /\ UNCHANGED <<destroyCalls, nativeCalls, teardowns, calls, heap, fp>>
    /\ LET env == <<[elemType |-> elemType, loads |-> loads,
                     resolved |-> FuncName(elemType) \in exports,
                     factoryThrows |-> t # <<>>]>>
       IN IF ~loads
          THEN /\ result' = Res("Construct", Exc("CNTKException", LibraryMsg, <<>>), <<>>, <<>>, env)
               /\ phase' = "garbage"
               /\ UNCHANGED <<m_eval, engine, nullCall>>
          ELSE IF FuncName(elemType) \notin exports
          THEN \* procAddress is null and is called
               /\ nullCall' = TRUE
               /\ UNCHANGED <<m_eval, engine>>
               /\ IF ub = "crash"
                  THEN /\ phase' = "crashed"
                       /\ result' = Res("Construct", Exc("ProcessCrash", <<>>, <<>>), <<>>, <<>>, env)
                  ELSE /\ phase' = "garbage"
                       /\ result' = Res("Construct", Exc(ub, ClrMsg, <<>>), <<>>, <<>>, env)
          ELSE IF t # <<>>
          THEN /\ result' = Res("Construct", Exc("CNTKException", NewString(t[1].what), <<>>), <<>>, t, env)
               /\ phase' = "garbage"
               /\ UNCHANGED <<m_eval, engine, nullCall>>
          ELSE /\ m_eval' = Handle
               /\ engine' = [alive |-> TRUE, net |-> "", started |-> FALSE]
               /\ phase' = "live"
               /\ result' = Res("Construct", Ok, <<>>, <<>>, env)
               /\ UNCHANGED nullCall

\* ---------------------------------------------------------------- teardown
\* the finalizer without m_eval = nullptr
FinalizerKeepsHandle ==
    IF m_eval # NULL
    THEN /\ destroyCalls' = destroyCalls + 1
         /\ engine' = [engine EXCEPT !.alive = FALSE]
         /\ m_eval' = m_eval
    ELSE UNCHANGED <<destroyCalls, engine, m_eval>>

\* the finalizer that forgets the handle without m_eval->Destroy()
FinalizerSkipsDestroy ==
    /\ m_eval' = NULL
    /\ UNCHANGED <<destroyCalls, engine>>

\* !IEvaluateModelExtendedManaged()
Finalizer ==
    IF m_eval # NULL
    THEN /\ destroyCalls' = destroyCalls + 1
         /\ engine' = [engine EXCEPT !.alive = FALSE]
         /\ m_eval' = NULL
    ELSE UNCHANGED <<destroyCalls, engine, m_eval>>

\* ~IEvaluateModelExtendedManaged()
Destructor ==
    IF m_eval = NULL
    THEN UNCHANGED <<destroyCalls, engine, m_eval>>
    ELSE Finalizer

CanCall == phase = "live" /\ fp.pc = "idle" /\ calls < MaxCalls

\* the caller disposes the instance (delete / Dispose)
Dispose ==
    /\ CanCall
    /\ Destructor
    /\ teardowns' = teardowns + 1
    /\ calls' = calls + 1
    /\ result' = Res("Dispose", Ok, <<>>, <<>>, <<>>)
    /\ UNCHANGED <<phase, nativeCalls, nullCall, heap, fp>>

\* the caller lets go of the instance without disposing it again
Drop ==
    /\ phase = "live"
    /\ fp.pc = "idle"
    /\ phase' = "garbage"
    /\ UNCHANGED <<m_eval, engine, destroyCalls, nativeCalls, nullCall, teardowns,
                   calls, result, heap, fp>>

\* the collector runs the finalizer of the unreachable instance
Finalize ==
    /\ phase = "garbage"
    /\ Finalizer
    /\ teardowns' = teardowns + 1
    /\ phase' = "finalized"
    /\ UNCHANGED <<nativeCalls, nullCall, calls, result, heap, fp>>

\* ------------------------------------------------------ public operations
NullReference == Exc("NullReferenceException", ClrMsg, <<>>)
IndexOutOfRange == Exc("IndexOutOfRangeException", ClrMsg, <<>>)

\* void CreateNetwork(String^ networkDescription)
CreateNetwork(description, t) ==
    /\ CanCall
    /\ calls' = calls + 1
    /\ UNCHANGED <<phase, m_eval, destroyCalls, nullCall, teardowns, heap, fp>>
    /\ IF m_eval = NULL
       THEN /\ result' = Res("CreateNetwork", ObjectDisposed, <<>>, <<>>, <<>>)
            /\ UNCHANGED <<engine, nativeCalls>>
       ELSE /\ nativeCalls' = nativeCalls + 1
            /\ IF t = <<>>
               THEN /\ engine' = [engine EXCEPT !.net = description, !.started = FALSE]
                    /\ result' = Res("CreateNetwork", Ok, <<>>, <<>>, <<>>)
               ELSE /\ result' = Res("CreateNetwork", GetCustomException(t[1]), <<>>, t, <<>>)
                    /\ UNCHANGED engine

\* the code GetOutputSchema and GetInputSchema share: no try block around
\* the native call, then one managed layout per native layout
GetSchema(op, layouts, t) ==
    /\ CanCall
    /\ calls' = calls + 1
    /\ UNCHANGED <<phase, m_eval, engine, destroyCalls, nullCall, teardowns, heap, fp>>
    /\ IF m_eval = NULL
       THEN /\ result' = Res(op, ObjectDisposed, <<>>, <<>>, <<>>)
            /\ UNCHANGED nativeCalls
       ELSE /\ nativeCalls' = nativeCalls + 1
            /\ IF t # <<>>
               THEN result' = Res(op, Untranslated, <<>>, t, <<>>)
               ELSE IF \E i \in 1..Len(layouts) : ~GetDataTypeConverts(layouts[i].m_dataType)
               THEN result' = Res(op, Exc("CNTKRuntimeException", DataTypeMsg, <<(<<>>)>>), <<>>, <<>>, layouts)
               ELSE result' = Res(op, Ok, ConvertSchema(layouts), <<>>, layouts)

\* VariableSchema^ GetOutputSchema()
GetOutputSchema(t) == GetSchema("GetOutputSchema", NativeOutputSchema(engine.net), t)

\* VariableSchema^ GetInputSchema()
GetInputSchema(t) == GetSchema("GetInputSchema", NativeInputSchema(engine.net), t)

\* StartForwardEvaluation without the check of m_eval
StartForwardEvaluationUnchecked(outputs, t) ==
    /\ CanCall
    /\ calls' = calls + 1
    /\ UNCHANGED <<phase, m_eval, destroyCalls, nullCall, teardowns, heap, fp>>
    /\ IF outputs.isNull
       THEN /\ result' = Res("StartForwardEvaluation", NullReference, <<>>, <<>>, <<>>)
            /\ UNCHANGED <<engine, nativeCalls>>
       ELSE /\ nativeCalls' = nativeCalls + 1
            /\ IF t = <<>>
               THEN /\ engine' = [engine EXCEPT !.started = TRUE]
                    /\ result' = Res("StartForwardEvaluation", Ok, <<>>, <<>>, <<>>)
               ELSE /\ result' = Res("StartForwardEvaluation", Untranslated, <<>>, t, <<>>)
                    /\ UNCHANGED engine

\* void StartForwardEvaluation(List<String^>^ outputs): no try block
StartForwardEvaluation(outputs, t) ==
    /\ CanCall
    /\ calls' = calls + 1
    /\ UNCHANGED <<phase, m_eval, destroyCalls, nullCall, teardowns, heap, fp>>
    /\ IF m_eval = NULL
       THEN /\ result' = Res("StartForwardEvaluation", ObjectDisposed, <<>>, <<>>, <<>>)
            /\ UNCHANGED <<engine, nativeCalls>>
       ELSE IF outputs.isNull
       THEN /\ result' = Res("StartForwardEvaluation", NullReference, <<>>, <<>>, <<>>)
            /\ UNCHANGED <<engine, nativeCalls>>
       ELSE /\ nativeCalls' = nativeCalls + 1
            /\ IF t = <<>>
               THEN /\ engine' = [engine EXCEPT !.started = TRUE]
                    /\ result' = Res("StartForwardEvaluation", Ok, <<>>, <<>>, <<>>)
               ELSE /\ result' = Res("StartForwardEvaluation", Untranslated, <<>>, t, <<>>)
                    /\ UNCHANGED engine

\* ------------------------------------------------------------- ForwardPass
\* ForwardPass runs in steps, so that the collector can run between them.
\* fp.pc: "inputs" / "outputs" (at the head of the loop over that list),
\* "inputsPinned" / "outputsPinned" (inside an iteration, after push_back),
\* "call" (both loops done), "inFlight" (inside m_eval->ForwardPass).
fpUnchanged == UNCHANGED <<phase, m_eval, engine, destroyCalls, nativeCalls, nullCall,
                           teardowns, calls, addr, content, strayWrite, gcMoves>>

CurrentList == IF fp.pc \in {"inputs", "inputsPinned"} THEN fp.inputs ELSE fp.outputs

\* InitFrom(p, size, size): the address the pin_ptr holds, and the lengths
VectorRef(a, size) == [ptr |-> addr[a], capacity |-> size, size |-> size]

\* the native ValueBuffer<ElemType, VectorRef> *vb after the three InitFrom
RefOf(b) ==
    [m_buffer |-> VectorRef(Arr(b, 1), Pool[b].m_size),
     m_indices |-> VectorRef(Arr(b, 2), Pool[b].m_size),
     m_colIndices |-> VectorRef(Arr(b, 3), Pool[b].m_size)]

\* entry of ForwardPass: the check of m_eval
ForwardPassEnter(inputs, outputs) ==
    /\ CanCall
    /\ calls' = calls + 1
    /\ UNCHANGED <<phase, m_eval, engine, destroyCalls, nativeCalls, nullCall, teardowns, heap>>
    /\ IF m_eval = NULL
       THEN /\ result' = Res("ForwardPass", ObjectDisposed, <<>>, <<>>, <<>>)
            /\ UNCHANGED fp
       ELSE /\ result' = Res("ForwardPass", Exc("running", <<>>, <<>>), <<>>, <<>>, <<>>)
            /\ fp' = [pc |-> "inputs", inputs |-> inputs, outputs |-> outputs, i |-> 1,
                      stdInputs |-> <<>>, stdOutputs |-> <<>>]

\* for each over a null list, a null item, or element 0 of an empty array:
\* the runtime raises and ForwardPass rethrows
ForwardPassFault ==
    /\ fp.pc \in {"inputs", "outputs"}
    /\ \/ /\ CurrentList.isNull
          /\ result' = Res("ForwardPass", NullReference, <<>>, <<>>, <<>>)
       \/ /\ ~CurrentList.isNull
          /\ fp.i <= Len(CurrentList.items)
          /\ CurrentList.items[fp.i] = 0
          /\ result' = Res("ForwardPass", NullReference, <<>>, <<>>, <<>>)
       \/ /\ ~CurrentList.isNull
          /\ fp.i <= Len(CurrentList.items)
          /\ CurrentList.items[fp.i] # 0
          /\ Pool[CurrentList.items[fp.i]].m_buffer = 0
          /\ result' = Res("ForwardPass", IndexOutOfRange, <<>>, <<>>, <<>>)
    /\ fp' = Idle
    /\ UNCHANGED pinned
    /\ fpUnchanged

\* one iteration up to push_back: the three pin_ptr are taken, vb is
\* pointed at the arrays and a copy of vb is appended
PinAndPush ==
    /\ fp.pc \in {"inputs", "outputs"}
    /\ ~CurrentList.isNull
    /\ fp.i <= Len(CurrentList.items)
    /\ CurrentList.items[fp.i] # 0
    /\ Pool[CurrentList.items[fp.i]].m_buffer > 0
    /\ LET b == CurrentList.items[fp.i]
       IN /\ pinned' = pinned \cup ArraysOf(b)
          /\ fp' = IF fp.pc = "inputs"
                   THEN [fp EXCEPT !.pc = "inputsPinned", !.stdInputs = Append(@, RefOf(b))]
                   ELSE [fp EXCEPT !.pc = "outputsPinned", !.stdOutputs = Append(@, RefOf(b))]
    /\ UNCHANGED result
    /\ fpUnchanged

\* the end of the iteration: pb, pi and pci go out of scope, which unpins
EndIteration ==
    /\ fp.pc \in {"inputsPinned", "outputsPinned"}
    /\ pinned' = pinned \ ArraysOf(CurrentList.items[fp.i])
    /\ fp' = [fp EXCEPT !.pc = IF fp.pc = "inputsPinned" THEN "inputs" ELSE "outputs",
                        !.i = @ + 1]
    /\ UNCHANGED result
    /\ fpUnchanged

\* the list is exhausted: on to the outputs, or to the native call
EndLoop ==
    /\ fp.pc \in {"inputs", "outputs"}
    /\ ~CurrentList.isNull
    /\ fp.i > Len(CurrentList.items)
    /\ fp' = [fp EXCEPT !.pc = IF fp.pc = "inputs" THEN "outputs" ELSE "call", !.i = 1]
    /\ UNCHANGED <<result, pinned>>
    /\ fpUnchanged

\* m_eval->ForwardPass(stdInputs, stdOutputs) is entered
NativeForwardPassCall ==
    /\ fp.pc = "call"
    /\ fp' = [fp EXCEPT !.pc = "inFlight"]
    /\ nativeCalls' = nativeCalls + 1
    /\ UNCHANGED <<phase, m_eval, engine, destroyCalls, nullCall, teardowns, calls,
                   result, heap>>

\* the buffer whose m_buffer array lies at address p, or 0
BufferAt(p) == IF \E b \in NonEmpty : addr[Arr(b, 1)] = p
               THEN CHOOSE b \in NonEmpty : addr[Arr(b, 1)] = p
               ELSE 0

RECURSIVE WriteResults(_, _, _)
WriteResults(c, refs, j) ==
    IF j > Len(refs) THEN c
    ELSE WriteResults(IF BufferAt(refs[j].m_buffer.ptr) = 0 THEN c
                      ELSE [c EXCEPT ![BufferAt(refs[j].m_buffer.ptr)] = j],
                      refs, j + 1)

\* the native call ends: it throws, which is translated, or it has written
\* the j-th result through the j-th output reference
NativeForwardPassReturn(t) ==
    /\ fp.pc = "inFlight"
    /\ fp' = Idle
    /\ UNCHANGED <<phase, m_eval, engine, destroyCalls, nativeCalls, nullCall, teardowns,
                   calls, addr, pinned, gcMoves>>
    /\ IF t # <<>>
       THEN /\ result' = Res("ForwardPass", GetCustomException(t[1]), <<>>, t, <<>>)
            /\ UNCHANGED <<content, strayWrite>>
       ELSE /\ result' = Res("ForwardPass", Ok, [j \in 1..Len(fp.outputs.items) |-> [buffer |-> fp.outputs.items[j]]], <<>>, <<>>)
            /\ content' = WriteResults(content, fp.stdOutputs, 1)
            /\ strayWrite' = (strayWrite \/ \E j \in 1..Len(fp.stdOutputs) :
                                  BufferAt(fp.stdOutputs[j].m_buffer.ptr) = 0)

\* --------------------------------------------------------------- collector
\* the collector relocates an array that is not pinned (the arrays are the
\* caller's, alive as long as the caller is: while the instance is in use)
Relocate(a) ==
    /\ phase = "live"
    /\ gcMoves < MaxGC
    /\ a \notin pinned
    /\ addr' = [addr EXCEPT ![a] = @ + Stride]
    /\ gcMoves' = gcMoves + 1
    /\ UNCHANGED <<phase, m_eval, engine, destroyCalls, nativeCalls, nullCall, teardowns,
                   calls, result, pinned, content, strayWrite, fp>>

\* ------------------------------------------------------ the buffer factory
\* schema->CreateBuffers(maxLengths) called by the user of a schema
CallCreateBuffersMax(schema, maxLengths) ==
    /\ CanCall
    /\ calls' = calls + 1
    /\ LET r == CreateBuffersMax(schema, maxLengths)
       IN result' = Res("CreateBuffers(maxLengths)",
                        Exc(r.kind, IF r.kind = "CNTKRuntimeException" THEN MaxLengthsMsg ELSE <<>>, <<>>),
                        r.value, <<>>, <<[schema |-> schema, maxLengths |-> maxLengths]>>)
    /\ UNCHANGED <<phase, m_eval, engine, destroyCalls, nativeCalls, nullCall, teardowns, heap, fp>>

\* schema->CreateBuffers()
CallCreateBuffersMin(schema) ==
    /\ CanCall
    /\ calls' = calls + 1
    /\ LET r == CreateBuffersMin(schema)
       IN result' = Res("CreateBuffers()", Exc(r.kind, <<>>, <<>>), r.value, <<>>, <<[schema |-> schema]>>)
    /\ UNCHANGED <<phase, m_eval, engine, destroyCalls, nativeCalls, nullCall, teardowns, heap, fp>>

\* ----------------------------------------------------------- specification
ElemTypes == {"float", "double"}

DoConstruct ==
    \E e \in ElemTypes, loads \in BOOLEAN, exports \in SUBSET FactoryNames,
       t \in NativeOutcomes, ub \in NullCallOutcomes : Construct(e, loads, exports, t, ub)
DoCreateNetwork == \E d \in Descriptions, t \in NativeOutcomes : CreateNetwork(d, t)
DoGetOutputSchema == \E t \in NativeOutcomes : GetOutputSchema(t)
DoGetInputSchema == \E t \in NativeOutcomes : GetInputSchema(t)
DoStartForwardEvaluation ==
    \E o \in NameLists, t \in NativeOutcomes : StartForwardEvaluation(o, t)
DoForwardPassEnter == \E i \in InputLists, o \in OutputLists : ForwardPassEnter(i, o)
DoNativeForwardPassReturn == \E t \in NativeOutcomes : NativeForwardPassReturn(t)
DoRelocate == \E a \in Arrays : Relocate(a)
DoCreateBuffersMax == \E s \in Schemas, l \in MaxLengthLists : CallCreateBuffersMax(s, l)
DoCreateBuffersMin == \E s \in Schemas : CallCreateBuffersMin(s)

Next ==
    \/ DoConstruct
    \/ DoCreateNetwork
    \/ DoGetOutputSchema
    \/ DoGetInputSchema
    \/ DoStartForwardEvaluation
    \/ DoForwardPassEnter
    \/ ForwardPassFault
    \/ PinAndPush
    \/ EndIteration
    \/ EndLoop
    \/ NativeForwardPassCall
    \/ DoNativeForwardPassReturn
    \/ DoRelocate
    \/ DoCreateBuffersMax
    \/ DoCreateBuffersMin
    \/ Dispose
    \/ Drop
    \/ Finalize

Spec == Init /\ [][Next]_vars

\* the collector eventually finalizes an instance that stays unreachable
FairSpec == Spec /\ WF_vars(Finalize)

\* ================================================================== claims
PublicOps == {"CreateNetwork", "GetInputSchema", "GetOutputSchema",
              "StartForwardEvaluation", "ForwardPass"}

\* one step that is a call of a public operation, with any arguments
PublicOperationStep ==
    \/ DoCreateNetwork
    \/ DoGetInputSchema
    \/ DoGetOutputSchema
    \/ DoStartForwardEvaluation
    \/ DoForwardPassEnter

\* C1: once a teardown has run on the instance, every call of CreateNetwork,
\* GetInputSchema, GetOutputSchema, StartForwardEvaluation or ForwardPass,
\* whatever its arguments (null lists and the empty string included), ends
\* with the disposed-object exception, and no function of the native engine
\* is invoked by it.
C1_DisposedAfterTeardown ==
    [][(teardowns >= 1 /\ PublicOperationStep)
         => /\ result'.kind = "ObjectDisposedException"
            /\ result'.op \in PublicOps
            /\ nativeCalls' = nativeCalls
            /\ destroyCalls' = destroyCalls
            /\ engine' = engine
            /\ fp'.pc = "idle"]_vars

\* a public operation was called after teardown and answered
C1_Witness ==
    /\ teardowns >= 1
    /\ phase = "live"
    /\ result.op = "StartForwardEvaluation"
    /\ result.kind = "ObjectDisposedException"

\* C2: over any number of teardowns of one instance (Dispose any number of
\* times, then the finalizer), none raises and the native Destroy is invoked
\* at most once; once it was invoked the handle is gone.
C2_TeardownIdempotent ==
    /\ destroyCalls <= 1
    /\ (result.op = "Dispose" => result.kind = "ok")
    /\ (teardowns >= 1 => m_eval = NULL)
    /\ (destroyCalls = 1 => m_eval = NULL /\ ~engine.alive)

\* Dispose ran twice and the finalizer after them, on a live handle
C2_Witness ==
    /\ teardowns >= 3
    /\ phase = "finalized"
    /\ destroyCalls = 1

ConstructFailed == result.op = "Construct" /\ result.kind # "ok"

\* C3: an instance that holds a handle and becomes unreachable without
\* having been disposed is eventually finalized, and the finalizer invokes
\* Destroy on the handle; an instance whose construction failed never
\* invokes Destroy.
C3_FinalizerFrees ==
    /\ (phase = "garbage" /\ m_eval # NULL) ~> (destroyCalls = 1 /\ ~engine.alive)
    /\ [](ConstructFailed => destroyCalls = 0 /\ m_eval = NULL)

\* never disposed, collected, and the finalizer has destroyed the engine
C3_Witness ==
    /\ phase = "finalized"
    /\ teardowns = 1
    /\ destroyCalls = 1
    /\ ~engine.alive

\* the kinds of the exception-translation table
TableKinds == {"CNTKRuntimeException", "CNTKLogicErrorException",
               "CNTKInvalidArgumentException", "CNTKBadAllocException", "CNTKException"}

\* C4: every native failure raised during a public operation reaches the
\* caller as one exception of a kind of the translation table that carries
\* the original message.
C4_NativeFailuresTranslated ==
    (result.op \in PublicOps /\ result.thrown # <<>>)
        => /\ result.kind \in TableKinds
           /\ result.msg = result.thrown[1].what

\* the kind the translation table documents for a native exception type
DocumentedKind(type) ==
    CASE type = "ExceptionWithCallStack<runtime_error>" -> "CNTKRuntimeException"
      [] type = "ExceptionWithCallStack<logic_error>" -> "CNTKLogicErrorException"
      [] type = "ExceptionWithCallStack<invalid_argument>" -> "CNTKInvalidArgumentException"
      [] type = "bad_alloc" -> "CNTKBadAllocException"
      [] OTHER -> "CNTKException"

\* C5: a native failure raised inside CreateNetwork or ForwardPass is
\* translated to the kind documented for its type (the generic kind only
\* when no other matches); the message is the native message, character by
\* character, and the call stack is attached, unchanged, exactly when the
\* native exception carries one.
C5_ExceptionMapping ==
    (result.op \in {"CreateNetwork", "ForwardPass"} /\ result.thrown # <<>>)
        => /\ result.kind = DocumentedKind(result.thrown[1].type)
           /\ result.msg = result.thrown[1].what
           /\ result.stack = result.thrown[1].callStack

\* the native ForwardPass threw an invalid-argument failure with a call
\* stack, and a plain runtime_error inside CreateNetwork became generic
C5_Witness ==
    /\ result.op = "ForwardPass"
    /\ result.thrown # <<>>
    /\ result.thrown[1].type = "ExceptionWithCallStack<invalid_argument>"
    /\ result.kind = "CNTKInvalidArgumentException"
    /\ result.stack # <<>>

\* C6: GetInputSchema and GetOutputSchema return one entry per native layout
\* entry, in the engine's order, the i-th carrying the name, the data type,
\* the storage kind and the element count of the i-th native entry, and
\* leave the handle and the engine unchanged.
C6_SchemaConversion ==
    [][(DoGetInputSchema \/ DoGetOutputSchema)
         => /\ m_eval' = m_eval
            /\ engine' = engine
            /\ result'.kind = "ok"
                 => LET native == IF result'.op = "GetInputSchema"
                                  THEN NativeInputSchema(engine.net)
                                  ELSE NativeOutputSchema(engine.net)
                    IN /\ Len(result'.value) = Len(native)
                       /\ \A i \in 1..Len(native) :
                            /\ result'.value[i].m_name = native[i].m_name
                            /\ result'.value[i].m_dataType = native[i].m_dataType
                            /\ result'.value[i].m_storageType = native[i].m_storageType
                            /\ result'.value[i].m_numElements = native[i].m_numElements]_vars

\* C7: Construct fails with the load-error condition when the library does
\* not load and when the factory symbol does not resolve, and with the
\* wrapped native exception when the factory throws; in none of these cases
\* is a null factory called or a handle held.
C7_ConstructFailures ==
    result.op = "Construct" =>
        LET e == result.env[1]
        IN /\ (~e.loads \/ ~e.resolved)
                => /\ result.kind = "CNTKException"
                   /\ ~nullCall
                   /\ m_eval = NULL
           /\ (e.loads /\ e.resolved /\ e.factoryThrows)
                => /\ result.kind = "CNTKException"
                   /\ result.msg = result.thrown[1].what
                   /\ m_eval = NULL

\* the three arrays of a buffer have the length of its size
WellFormed(vb) ==
    /\ vb.m_buffer = vb.m_size
    /\ vb.m_indices = vb.m_size
    /\ vb.m_colIndices = vb.m_size

\* s is the product e * l of the integers (e >= 0), without computing it
ProductIs(s, e, l) == IF e = 0 THEN s = 0 ELSE s % e = 0 /\ s \div e = l

\* 0 <= e * l <= MaxInt32, for e >= 0
ProductFits(e, l) == l >= 0 /\ (e = 0 \/ l <= MaxInt32 \div e)

MinBuffersRight ==
    result.op = "CreateBuffers()" =>
        LET schema == result.env[1].schema
        IN /\ result.kind = "ok"
           /\ Len(result.value) = Len(schema)
           /\ \A i \in 1..Len(schema) :
                /\ result.value[i].m_size = schema[i].m_numElements
                /\ WellFormed(result.value[i])

\* CreateBuffers(maxLengths) was called with one length per schema entry
MaxLengthsMatch ==
    /\ result.op = "CreateBuffers(maxLengths)"
    /\ Len(result.env[1].maxLengths) = Len(result.env[1].schema)

MaxBuffersRight ==
    LET schema == result.env[1].schema
        L == result.env[1].maxLengths
    IN /\ result.kind = "ok"
       /\ Len(result.value) = Len(schema)
       /\ \A i \in 1..Len(schema) :
            /\ ProductIs(result.value[i].m_size, schema[i].m_numElements, L[i])
            /\ WellFormed(result.value[i])

AllProductsFit ==
    \A i \in 1..Len(result.env[1].schema) :
        ProductFits(result.env[1].schema[i].m_numElements, result.env[1].maxLengths[i])

\* C8 as stated: CreateBuffers() on a schema of K entries with counts e1..eK
\* returns K buffers of sizes e1..eK, and CreateBuffers(maxLengths) with any
\* list L of length K returns K buffers of sizes e1*L1..eK*LK; every buffer
\* has its three arrays of the length of its size.
C8_BufferFactoryAnyLengths ==
    /\ MinBuffersRight
    /\ MaxLengthsMatch => MaxBuffersRight

\* C8, amended: as above, for the lists L of length K in which every
\* product ei*Li lies in 0..2^31-1.
C8_BufferFactory ==
    /\ MinBuffersRight
    /\ (MaxLengthsMatch /\ AllProductsFit) => MaxBuffersRight

\* CreateBuffers(<<2, 3>>) on a schema with counts <<3, 1>> gave sizes 6, 3
C8_Witness ==
    /\ result.op = "CreateBuffers(maxLengths)"
    /\ result.kind = "ok"
    /\ Len(result.value) = 2
    /\ result.value[1].m_size = 6
    /\ result.value[2].m_size = 3

\* no two entries of the list are the same buffer
Distinct(items) == \A i, j \in 1..Len(items) : i # j => items[i].buffer # items[j].buffer

RefersTo(ref, b) ==
    /\ ref = RefOf(b)
    /\ \A c \in NonEmpty \ {b} : \A f \in 1..3 :
          addr[Arr(c, f)] \notin {ref.m_buffer.ptr, ref.m_indices.ptr, ref.m_colIndices.ptr}

\* C9: while the native ForwardPass runs it holds exactly one reference per
\* input and per output buffer, the i-th referring to the arrays of the i-th
\* buffer of the caller's list, with the buffer's size, and to no other; a
\* forward pass that succeeds has left the j-th result in the j-th buffer of
\* the outputs list.
C9_PositionalBinding ==
    /\ fp.pc = "inFlight"
         => /\ Len(fp.stdInputs) = Len(fp.inputs.items)
            /\ Len(fp.stdOutputs) = Len(fp.outputs.items)
            /\ \A i \in 1..Len(fp.stdInputs) : RefersTo(fp.stdInputs[i], fp.inputs.items[i])
            /\ \A i \in 1..Len(fp.stdOutputs) : RefersTo(fp.stdOutputs[i], fp.outputs.items[i])
    /\ (result.op = "ForwardPass" /\ result.kind = "ok" /\ Distinct(result.value))
         => /\ ~strayWrite
            /\ \A j \in 1..Len(result.value) : content[result.value[j].buffer] = j

\* the arrays whose addresses ForwardPass has taken so far
AddressTaken ==
    UNION ({ArraysOf(fp.inputs.items[k]) : k \in 1..Len(fp.stdInputs)}
           \cup {ArraysOf(fp.outputs.items[k]) : k \in 1..Len(fp.stdOutputs)})

\* C10: every managed array whose address ForwardPass has handed to the
\* native engine stays pinned until the native ForwardPass has returned: in
\* no reachable state is the native call in flight with one of the arrays
\* it references unpinned.
C10_PinnedDuringCall == fp.pc = "inFlight" => AddressTaken \subseteq pinned

====
